---- MODULE Spec2Model ----
(***************************************************************************)
(* redwrenlib: the GestureFile model store (dotgesture/gesturefile.py),    *)
(* its versioned HDF5 container, the version registry and the match        *)
(* evaluator, as a state machine.                                          *)
(*                                                                         *)
(* Scores and thresholds are reals in the program; here they are integers  *)
(* in tenths (threshold -10.5 is -105).                                    *)
(***************************************************************************)
EXTENDS Integers, Sequences, FiniteSets, TLC

\* ---- bounds ------------------------------------------------------------
\* longest component-set list held by one sensor entry in memory
MaxModels == 3
\* longest list handed to one append_reading call
MaxAppend == 2
\* most members (datasets and sub-groups) one sensor group of the file holds
MaxRecords == 5
\* longest timestamps / readings list handed to is_gesture
MaxLen == 1

\* ---- value universes ---------------------------------------------------
\* GestureFile instances of the process; both are built on the same path
Stores == {1, 2}
\* sensor labels callers use
Labels == {"a", "b"}
\* fitted GaussianMixture objects handed in by the caller; component set c is
\* the one-component mixture with weight 1, mean (0, Mean(c)) and identity
\* precision Cholesky factor
Comps == {1, 2}
\* reading values fed to the evaluator
Values == {0}

RECURSIVE SeqsUpTo(_, _)
SeqsUpTo(S, n) ==
    IF n = 0 THEN {<<>>}
    ELSE LET shorter == SeqsUpTo(S, n - 1)
         IN  shorter \cup {Append(s, x) : s \in {t \in shorter : Len(t) = n - 1}, x \in S}

\* ---- program constants -------------------------------------------------
GESTURE_VERSION == 2
VersionReaderKeys == {"0.0.1", "2"}
MODEL_N_COMPONENTS == 42
MODEL_RANDOM_STATE == 2
MODEL_THRESHOLD == -105

\* ---- in-memory data ----------------------------------------------------
\* The three scalar parameters of a sensor; present = FALSE stands for their
\* datasets being absent from a group or from the file root.
NoParams == [present |-> FALSE]
Params(n, r, t) == [present |-> TRUE, n_components |-> n, random_state |-> r, threshold |-> t]

\* SensorData(): every attribute is a class attribute.  own = FALSE means the
\* entry's `models` is the list object SensorData.models of the class, whose
\* content is the variable classModels; own = TRUE means the entry holds a
\* list object of its own (entries built by a reader).
SensorData ==
    [own |-> FALSE, models |-> <<>>,
     n_components |-> MODEL_N_COMPONENTS,
     random_state |-> MODEL_RANDOM_STATE,
     threshold |-> MODEL_THRESHOLD]

EmptyMap == <<>>
\* self._gesture_data = {}
EmptyStore == [shape |-> "dict", params |-> NoParams, d |-> EmptyMap]
IsEmptyDict(s) == s.shape = "dict" /\ DOMAIN s.d = {}

\* ---- the container file ------------------------------------------------
NoVersion == [kind |-> "none", val |-> ""]
\* h5py.File(name, 'w'): an existing container with no member
EmptyContainer == [exists |-> TRUE, version |-> NoVersion, globals |-> NoParams, groups |-> EmptyMap]
NoFile == [exists |-> FALSE, version |-> NoVersion, globals |-> NoParams, groups |-> EmptyMap]
NewGroup == [params |-> NoParams, models |-> EmptyMap]
\* len(gmm_group): the number of members of the group, datasets included
GroupLen(grp) == Cardinality(DOMAIN grp.models) + (IF grp.params.present THEN 3 ELSE 0)

VARIABLES
    classModels,    \* content of the class attribute SensorData.models
    gesture_data,   \* gesture_data[g]: self._gesture_data of instance g
    file,           \* the container at the path of the instances
    built,          \* instances whose store was built by create() then append_reading
    created,        \* create() succeeded on the path
    last            \* the last call: operation, arguments, outcome

vars == <<classModels, gesture_data, file, built, created, last>>

\* the list a sensor entry's `models` attribute refers to
ModelsOf(sd, cls) == IF sd.own THEN sd.models ELSE cls

\* an optional argument: None, or a value
None == [set |-> FALSE, v |-> 0]
Some(x) == [set |-> TRUE, v |-> x]

Ret(op, g) ==
    [op |-> op, g |-> g, label |-> "", arg |-> <<>>, override |-> FALSE,
     ok |-> TRUE, raised |-> FALSE, codec |-> "none", isNew |-> FALSE,
     ts |-> 0, readings |-> <<>>, kind |-> "", status |-> FALSE, result |-> EmptyMap,
     n_components |-> None, random_state |-> None, threshold |-> None]

\* ---- GestureFile.create ------------------------------------------------
\* h5py.File(name, 'w') truncates; the only member written is 'version',
\* an integer dataset holding GESTURE_VERSION
CreatedContainer ==
    [EmptyContainer EXCEPT !.version = [kind |-> "int", val |-> ToString(GESTURE_VERSION)]]

Create(g) ==
    /\ file' = CreatedContainer
    /\ created' = TRUE
    /\ built' = IF IsEmptyDict(gesture_data[g]) THEN built \cup {g} ELSE built
    /\ last' = Ret("create", g)
    /\ UNCHANGED <<classModels, gesture_data>>

\* ---- GestureFile.append_reading ----------------------------------------
\* [ok, store, cls, isNew]: the value returned, the store and the class list
\* after the call.  `x.models += model` extends the list x.models refers to
\* in place and binds the same list object to the instance attribute.
AppendOutcome(s, cls, label, model) ==
    IF s.shape # "dict"
    THEN \* .keys() of a tuple: AttributeError, caught
         [ok |-> FALSE, store |-> s, cls |-> cls, isNew |-> FALSE]
    ELSE LET isNew == label \notin DOMAIN s.d
             d1    == IF isNew THEN (label :> SensorData) @@ s.d ELSE s.d
         IN  IF d1[label].own
             THEN [ok |-> TRUE, isNew |-> isNew, cls |-> cls,
                   store |-> [s EXCEPT !.d = [d1 EXCEPT ![label].models = @ \o model]]]
             ELSE [ok |-> TRUE, isNew |-> isNew, cls |-> cls \o model,
                   store |-> [s EXCEPT !.d = d1]]

AppendReading(g, label, model) ==
    LET out == AppendOutcome(gesture_data[g], classModels, label, model)
    IN  /\ Len(out.cls) <= MaxModels
        /\ \A l \in DOMAIN out.store.d :
              out.store.shape = "dict" => Len(ModelsOf(out.store.d[l], out.cls)) <= MaxModels
        /\ gesture_data' = [gesture_data EXCEPT ![g] = out.store]
        /\ classModels' = out.cls
        /\ last' = [Ret("append_reading", g) EXCEPT
                       !.label = label, !.arg = model, !.ok = out.ok, !.isNew = out.isNew]
        /\ UNCHANGED <<file, built, created>>

\* the loop body of write as it would be if it skipped the component sets the
\* group already holds
WriteGroupOnce(grp, sd, models) ==
    LET held  == {grp.models[i].comp : i \in DOMAIN grp.models}
        new   == SelectSeq(models, LAMBDA c : c \notin held)
        start == GroupLen(grp)
        fresh == start .. (start + Len(new) - 1)
    IN  [params |-> Params(sd.n_components, sd.random_state, sd.threshold),
         models |-> [i \in DOMAIN grp.models \cup fresh |->
                        IF i \in DOMAIN grp.models THEN grp.models[i]
                        ELSE [comp |-> new[i - start + 1], ok |-> TRUE]]]

\* ---- GestureFile.write -------------------------------------------------
\* one sensor group after the loop body of write ran for it: the start index
\* is taken before the three scalar datasets are upserted
WriteGroup(grp, sd, models) ==
    LET start == GroupLen(grp)
        fresh == start .. (start + Len(models) - 1)
    IN  [params |-> Params(sd.n_components, sd.random_state, sd.threshold),
         models |-> [i \in DOMAIN grp.models \cup fresh |->
                        IF i \in DOMAIN grp.models THEN grp.models[i]
                        ELSE [comp |-> models[i - start + 1], ok |-> TRUE]]]

\* write as it would be if the file were always opened in mode 'a'
WriteOutcomeKeep(f, s, cls, override) ==
    LET opened == IF ~f.exists THEN EmptyContainer ELSE f
    IN  IF IsEmptyDict(s) THEN [ok |-> FALSE, file |-> f]
        ELSE IF s.shape # "dict" THEN [ok |-> FALSE, file |-> opened]
        ELSE [ok |-> TRUE,
              file |-> [opened EXCEPT !.groups =
                  [l \in DOMAIN opened.groups \cup DOMAIN s.d |->
                      IF l \in DOMAIN s.d
                      THEN WriteGroup(IF l \in DOMAIN opened.groups
                                      THEN opened.groups[l] ELSE NewGroup,
                                      s.d[l], ModelsOf(s.d[l], cls))
                      ELSE opened.groups[l]]]]

\* write as it would be if the file were opened before the store is tested
WriteOutcomeOpenFirst(f, s, cls, override) ==
    LET opened == IF override \/ ~f.exists THEN EmptyContainer ELSE f
    IN  IF IsEmptyDict(s) \/ s.shape # "dict" THEN [ok |-> FALSE, file |-> opened]
        ELSE [ok |-> TRUE,
              file |-> [opened EXCEPT !.groups =
                  [l \in DOMAIN opened.groups \cup DOMAIN s.d |->
                      IF l \in DOMAIN s.d
                      THEN WriteGroup(IF l \in DOMAIN opened.groups
                                      THEN opened.groups[l] ELSE NewGroup,
                                      s.d[l], ModelsOf(s.d[l], cls))
                      ELSE opened.groups[l]]]]

\* [ok, file]: the value returned and the container after the call
WriteOutcome(f, s, cls, override) ==
    LET opened == IF override \/ ~f.exists THEN EmptyContainer ELSE f
    IN  IF IsEmptyDict(s) THEN [ok |-> FALSE, file |-> f]
        ELSE IF s.shape # "dict"
        THEN \* the file is open (and truncated under 'w') when .keys() raises
             [ok |-> FALSE, file |-> opened]
        ELSE [ok |-> TRUE,
              file |-> [opened EXCEPT !.groups =
                  [l \in DOMAIN opened.groups \cup DOMAIN s.d |->
                      IF l \in DOMAIN s.d
                      THEN WriteGroup(IF l \in DOMAIN opened.groups
                                      THEN opened.groups[l] ELSE NewGroup,
                                      s.d[l], ModelsOf(s.d[l], cls))
                      ELSE opened.groups[l]]]]

Write(g, override) ==
    LET out == WriteOutcome(file, gesture_data[g], classModels, override)
    IN  /\ \A l \in DOMAIN out.file.groups : GroupLen(out.file.groups[l]) <= MaxRecords
        /\ file' = out.file
        /\ last' = [Ret("write", g) EXCEPT !.override = override, !.ok = out.ok]
        /\ UNCHANGED <<classModels, gesture_data, built, created>>

\* ---- version_reads: the 0.0.1 reader -------------------------------------
\* h5py lists the members of a group in the order of their names, so model_10
\* comes before model_2: the decimal digits of an index, compared as text
Digits(i) == IF i < 10 THEN <<i>> ELSE <<i \div 10, i % 10>>
NameBefore(i, j) ==
    LET a == Digits(i)
        b == Digits(j)
    IN  \/ a[1] < b[1]
        \/ a[1] = b[1] /\ Len(a) < Len(b)
        \/ a[1] = b[1] /\ Len(a) = 2 /\ Len(b) = 2 /\ a[2] < b[2]

RECURSIVE InNameOrder(_)
InNameOrder(S) ==
    IF S = {} THEN <<>>
    ELSE LET first == CHOOSE i \in S : \A j \in S \ {i} : NameBefore(i, j)
         IN  <<first>> \o InNameOrder(S \ {first})

\* the inner loop of read_file over one sensor group: the models appended
\* until the first member that lacks a field; a scalar dataset of the group
\* (n_components, random_state, threshold sort after every model_i) has no
\* field 'weights' either
RECURSIVE ScanModels(_, _, _, _)
ScanModels(grp, order, i, acc) ==
    IF i > Len(order)
    THEN [models |-> acc, fault |-> grp.params.present]
    ELSE IF ~grp.models[order[i]].ok
    THEN [models |-> acc, fault |-> TRUE]
    ELSE ScanModels(grp, order, i + 1, Append(acc, grp.models[order[i]].comp))

\* the sensor labels of the universe in name order; each sorts before the
\* root datasets n_components, random_state, threshold, version
LabelOrder == <<"a", "b">>
RootDatasets == {"n_components", "random_state", "threshold", "version"}

\* the outer loop of read_file: models_dict when the loop ends or faults
RECURSIVE ScanGroups(_, _, _)
ScanGroups(f, i, acc) ==
    IF i > Len(LabelOrder)
    THEN [n \in RootDatasets |-> <<>>] @@ acc
    ELSE IF LabelOrder[i] \notin DOMAIN f.groups
    THEN ScanGroups(f, i + 1, acc)
    ELSE LET grp == f.groups[LabelOrder[i]]
             got == ScanModels(grp, InNameOrder(DOMAIN grp.models), 1, <<>>)
             acc1 == (LabelOrder[i] :> got.models) @@ acc
         IN  IF got.fault THEN acc1 ELSE ScanGroups(f, i + 1, acc1)

\* read_file of the 0.0.1 reader: [raised, value].  A fault inside the try is
\* swallowed; the return statement raises UnboundLocalError when the fault came
\* before model_parameters was bound.  The value is the pair
\* (model_parameters, models_dict).
ReadFile_0_0_1(f) ==
    IF ~f.globals.present
    THEN [raised |-> TRUE, value |-> EmptyStore]
    ELSE [raised |-> FALSE,
          value |-> [shape |-> "tuple", params |-> f.globals,
                     d |-> ScanGroups(f, 1, EmptyMap)]]

\* ---- version_reads: the version 2 reader ---------------------------------
RECURSIVE InIndexOrder(_)
InIndexOrder(S) ==
    IF S = {} THEN <<>>
    ELSE LET first == CHOOSE i \in S : \A j \in S : i <= j
         IN  <<first>> \o InIndexOrder(S \ {first})

GroupIntact(grp) == grp.params.present /\ \A i \in DOMAIN grp.models : grp.models[i].ok

\* per-sensor parameters and component sets, read into one SensorData per
\* group; any missing field fails the whole decode
ReadFileV2(f) ==
    IF \E l \in DOMAIN f.groups : ~GroupIntact(f.groups[l])
    THEN [raised |-> TRUE, value |-> EmptyStore]
    ELSE [raised |-> FALSE,
          value |-> [shape |-> "dict", params |-> NoParams,
                     d |-> [l \in DOMAIN f.groups |->
                              LET grp == f.groups[l]
                                  ord == InIndexOrder(DOMAIN grp.models)
                              IN  [own |-> TRUE,
                                   models |-> [k \in 1 .. Len(ord) |-> grp.models[ord[k]].comp],
                                   n_components |-> grp.params.n_components,
                                   random_state |-> grp.params.random_state,
                                   threshold |-> grp.params.threshold]]]]

\* ---- GestureFile.read --------------------------------------------------
\* f['version'][()].decode('utf-8'): [raised, tag].  Opening a missing file,
\* a missing 'version' member and an integer 'version' (numpy integers have
\* no decode) all raise.
FileVersion(f) ==
    IF f.exists /\ f.version.kind = "str"
    THEN [raised |-> FALSE, tag |-> f.version.val]
    ELSE [raised |-> TRUE, tag |-> ""]

\* version_readers[tag](f)
VersionReader(tag, f) == IF tag = "0.0.1" THEN ReadFile_0_0_1(f) ELSE ReadFileV2(f)
CodecName(tag) == IF tag = "0.0.1" THEN "0.0.1" ELSE "2"

\* read() as it would be with a fallback: a tag the registry does not hold is
\* handed to the newest reader
ReadOutcomeFallback(f, s) ==
    LET v == FileVersion(f)
    IN  IF v.raised
        THEN [ok |-> FALSE, store |-> s, codec |-> "none"]
        ELSE LET r == VersionReader(v.tag, f)
             IN  IF r.raised
                 THEN [ok |-> FALSE, store |-> s, codec |-> CodecName(v.tag)]
                 ELSE [ok |-> TRUE, store |-> r.value, codec |-> CodecName(v.tag)]

\* [ok, store, codec]: the value returned, self._gesture_data after the call
\* and the reader that was invoked
ReadOutcome(f, s) ==
    LET v == FileVersion(f)
    IN  IF v.raised \/ v.tag \notin VersionReaderKeys
        THEN [ok |-> FALSE, store |-> s, codec |-> "none"]
        ELSE LET r == VersionReader(v.tag, f)
             IN  IF r.raised
                 THEN [ok |-> FALSE, store |-> s, codec |-> CodecName(v.tag)]
                 ELSE [ok |-> TRUE, store |-> r.value, codec |-> CodecName(v.tag)]

Read(g) ==
    LET out == ReadOutcome(file, gesture_data[g])
    IN  /\ gesture_data' = [gesture_data EXCEPT ![g] = out.store]
        /\ built' = IF out.ok THEN built \ {g} ELSE built
        /\ last' = [Ret("read", g) EXCEPT !.ok = out.ok, !.codec = out.codec]
        /\ UNCHANGED <<classModels, file, created>>

\* ---- GestureFile.set_parameters ----------------------------------------
\* self._gesture_data[label]: KeyError on a dict without the label,
\* TypeError on a tuple
Subscriptable(s, label) == s.shape = "dict" /\ label \in DOMAIN s.d

\* the three blocks of set_parameters, each run on what the one before left:
\* acc is [raised, store]
SetNComponents(acc, label, n) ==
    IF acc.raised \/ ~n.set THEN acc
    ELSE IF ~(n.v > 0) \/ ~Subscriptable(acc.store, label) THEN [acc EXCEPT !.raised = TRUE]
    ELSE [acc EXCEPT !.store.d[label].n_components = n.v]

SetRandomState(acc, label, r) ==
    IF acc.raised \/ ~r.set THEN acc
    ELSE IF ~(r.v > 1) \/ ~Subscriptable(acc.store, label) THEN [acc EXCEPT !.raised = TRUE]
    ELSE [acc EXCEPT !.store.d[label].random_state = r.v]

SetThreshold(acc, label, t) ==
    IF acc.raised \/ ~t.set THEN acc
    ELSE IF ~Subscriptable(acc.store, label) THEN [acc EXCEPT !.raised = TRUE]
    ELSE [acc EXCEPT !.store.d[label].threshold = t.v]

SetParametersOutcome(s, label, n, r, t) ==
    SetThreshold(
        SetRandomState(
            SetNComponents([raised |-> FALSE, store |-> s], label, n),
            label, r),
        label, t)

SetParameters(g, label, n, r, t) ==
    LET out == SetParametersOutcome(gesture_data[g], label, n, r, t)
    IN  /\ gesture_data' = [gesture_data EXCEPT ![g] = out.store]
        /\ last' = [Ret("set_parameters", g) EXCEPT
                       !.label = label, !.raised = out.raised, !.ok = ~out.raised,
                       !.n_components = n, !.random_state = r, !.threshold = t]
        /\ UNCHANGED <<classModels, file, built, created>>

\* ---- GestureFile.get_parameters ----------------------------------------
\* [raised, n_components, random_state, threshold]: the subscript
\* self._gesture_data[label] raises for a label the store does not hold
GetParametersOutcome(s, label) ==
    IF ~Subscriptable(s, label)
    THEN [raised |-> TRUE, n_components |-> None, random_state |-> None, threshold |-> None]
    ELSE [raised |-> FALSE,
          n_components |-> Some(s.d[label].n_components),
          random_state |-> Some(s.d[label].random_state),
          threshold |-> Some(s.d[label].threshold)]

GetParameters(g, label) ==
    LET out == GetParametersOutcome(gesture_data[g], label)
    IN  /\ last' = [Ret("get_parameters", g) EXCEPT
                       !.label = label, !.raised = out.raised, !.ok = ~out.raised,
                       !.n_components = out.n_components,
                       !.random_state = out.random_state, !.threshold = out.threshold]
        /\ UNCHANGED <<classModels, gesture_data, file, built, created>>

\* ---- GestureFile.is_gesture --------------------------------------------
\* GaussianMixture.score of component set c on the rows (0, v), v in vals, in
\* tenths: the mean of -0.5*2*ln(2*pi) - 0.5*(v - Mean(c))^2 over the rows
Mean(c) == IF c = 1 THEN 0 ELSE 2
RECURSIVE Sum(_)
Sum(q) == IF q = <<>> THEN 0 ELSE Head(q) + Sum(Tail(q))
Score(c, vals) ==
    Sum([k \in 1 .. Len(vals) |-> -18 - 5 * (vals[k] - Mean(c)) * (vals[k] - Mean(c))]) \div Len(vals)

\* the best score as it would be with min() in place of max()
MinScore(models, vals) ==
    LET scores == {Score(models[k], vals) : k \in 1 .. Len(models)}
    IN  CHOOSE x \in scores : \A y \in scores : x <= y

\* max(scores)
MaxScore(models, vals) ==
    LET scores == {Score(models[k], vals) : k \in 1 .. Len(models)}
    IN  CHOOSE x \in scores : \A y \in scores : y <= x

GestureMatch(value, status) == [value |-> value, status |-> status]

\* the overall decision as it would be with any() in place of all()
AnyStatus(Result) == \E k \in DOMAIN Result : Result[k].status

\* the overall decision as it would be if no evaluated sensor meant no match
AllStatusStrict(Result) ==
    DOMAIN Result # {} /\ \A k \in DOMAIN Result : Result[k].status

\* all(r.status for r in Result.values())
AllStatus(Result) == \A k \in DOMAIN Result : Result[k].status

\* the loop over readings.keys(), from its i-th key on, Result holding the
\* entries of the keys before: [kind, status, result] where kind is "ok" for
\* the return after the loop, "fail" for a return inside it and "raise" for
\* an exception (.keys() of a tuple; score of an empty sample array; max of
\* an empty list)
RECURSIVE EvalLoop(_, _, _, _, _, _)
EvalLoop(s, cls, n, readings, i, Result) ==
    IF i > Len(readings)
    THEN [kind |-> "ok", status |-> AllStatus(Result), result |-> Result]
    ELSE LET sensor == readings[i].sensor
             vals   == readings[i].vals
         IN  IF n # Len(vals)
             THEN [kind |-> "fail", status |-> FALSE, result |-> Result]
             ELSE IF s.shape # "dict"
             THEN [kind |-> "raise", status |-> FALSE, result |-> EmptyMap]
             ELSE IF sensor \notin DOMAIN s.d
             THEN [kind |-> "fail", status |-> FALSE, result |-> Result]
             ELSE LET models == ModelsOf(s.d[sensor], cls)
                  IN  IF n = 0 \/ models = <<>>
                      THEN [kind |-> "raise", status |-> FALSE, result |-> EmptyMap]
                      ELSE LET best == MaxScore(models, vals)
                           IN  EvalLoop(s, cls, n, readings, i + 1,
                                   (sensor :> GestureMatch(best, best > s.d[sensor].threshold))
                                       @@ Result)

\* is_gesture as it would be without its check of an empty store
IsGestureUnguarded(s, cls, n, readings) == EvalLoop(s, cls, n, readings, 1, EmptyMap)

IsGestureOutcome(s, cls, n, readings) ==
    IF IsEmptyDict(s)
    THEN [kind |-> "fail", status |-> FALSE, result |-> EmptyMap]
    ELSE EvalLoop(s, cls, n, readings, 1, EmptyMap)

IsGesture(g, n, readings) ==
    LET out == IsGestureOutcome(gesture_data[g], classModels, n, readings)
    IN  /\ last' = [Ret("is_gesture", g) EXCEPT
                       !.ts = n, !.readings = readings, !.kind = out.kind,
                       !.raised = (out.kind = "raise"),
                       !.status = out.status, !.result = out.result]
        /\ UNCHANGED <<classModels, gesture_data, file, built, created>>

\* the readings dictionaries handed to is_gesture, as the sequence of their
\* items in key order
ReadingLists == {[k \in 1 .. n |-> v] : n \in 0 .. MaxLen, v \in Values}
ReadingsArgs ==
    {<<>>}
    \cup {<<[sensor |-> l, vals |-> v]>> : l \in Labels, v \in ReadingLists}
    \cup {rd \in {<<[sensor |-> l1, vals |-> v1], [sensor |-> l2, vals |-> v2]>> :
                      l1 \in Labels, l2 \in Labels, v1 \in ReadingLists, v2 \in ReadingLists} :
               rd[1].sensor # rd[2].sensor}

\* ---- containers found at the path when the program starts ----------------
Good(c) == [comp |-> c, ok |-> TRUE]
\* a component-set record that lacks one of its five fields
Bad(c) == [comp |-> c, ok |-> FALSE]
Tag(t) == [kind |-> "str", val |-> t]

FileV2Good ==
    [exists |-> TRUE, version |-> Tag("2"), globals |-> NoParams,
     groups |-> ("a" :> [params |-> Params(3, 7, -30), models |-> (0 :> Good(2)) @@ (1 :> Good(1))])]
FileV2Bad ==
    [exists |-> TRUE, version |-> Tag("2"), globals |-> NoParams,
     groups |-> ("a" :> [params |-> Params(3, 7, -30), models |-> (0 :> Good(1))])
             @@ ("b" :> [params |-> Params(3, 7, -30), models |-> (0 :> Good(2)) @@ (1 :> Bad(1))])]
FileV2Single ==
    [exists |-> TRUE, version |-> Tag("2"), globals |-> NoParams,
     groups |-> ("a" :> [params |-> Params(3, 7, -30), models |-> (0 :> Good(2))])]
FileV1Good ==
    [exists |-> TRUE, version |-> Tag("0.0.1"), globals |-> Params(42, 2, -105),
     groups |-> ("a" :> [params |-> NoParams, models |-> (0 :> Good(2)) @@ (1 :> Good(1))])]
FileV1Bad ==
    [exists |-> TRUE, version |-> Tag("0.0.1"), globals |-> Params(42, 2, -105),
     groups |-> ("a" :> [params |-> NoParams, models |-> (0 :> Good(1)) @@ (1 :> Bad(2))])
             @@ ("b" :> [params |-> NoParams, models |-> (0 :> Good(2))])]
FileV1NoGlobals ==
    [exists |-> TRUE, version |-> Tag("0.0.1"), globals |-> NoParams,
     groups |-> ("a" :> [params |-> NoParams, models |-> (0 :> Good(1))])]
FileUnknown ==
    [exists |-> TRUE, version |-> Tag("3"), globals |-> NoParams,
     groups |-> ("a" :> [params |-> Params(3, 7, -30), models |-> (0 :> Good(1))])]

\* what create() then write() of this program leave: an integer version
FileIntVersion ==
    [exists |-> TRUE, version |-> [kind |-> "int", val |-> "2"], globals |-> NoParams,
     groups |-> ("a" :> [params |-> Params(42, 2, -105), models |-> (0 :> Good(1))])]

ExternalFiles ==
    {FileV2Good, FileV2Bad, FileV2Single, FileV1Good, FileV1Bad, FileV1NoGlobals, FileUnknown,
     FileIntVersion}

\* ---- specification: the store and its container -------------------------
\* the state after construction of the instances, the path holding one of
\* the containers of `files`
InitFrom(files) ==
    /\ classModels = <<>>
    /\ gesture_data = [g \in Stores |-> EmptyStore]
    /\ file \in files
    /\ built = {}
    /\ created = FALSE
    /\ last = Ret("init", 0)

AppendArgs == SeqsUpTo(Comps, MaxAppend)
\* the lists of one component set, and those of at most one
SingleArgs == {<<c>> : c \in Comps}
ShortArgs == {<<>>} \cup SingleArgs

\* the program alone: no container at the path when it starts
Init == InitFrom({NoFile})

Next ==
    \/ Create(1)
    \/ \E l \in Labels, m \in AppendArgs : AppendReading(1, l, m)
    \/ \E o \in BOOLEAN : Write(1, o)
    \/ Read(1)

Spec == Init /\ [][Next]_vars

\* ---- specification: loading containers written elsewhere ------------------
InitLoad == InitFrom(ExternalFiles)

NextLoad ==
    \/ Read(1)
    \/ \E l \in Labels, m \in SingleArgs : AppendReading(1, l, m)
    \/ \E o \in BOOLEAN : Write(1, o)

SpecLoad == InitLoad /\ [][NextLoad]_vars

\* ---- specification: several instances appending in one process -----------
InitAlias == InitFrom({NoFile})

NextAlias ==
    \E g \in Stores, l \in Labels, m \in AppendArgs : AppendReading(g, l, m)

SpecAlias == InitAlias /\ [][NextAlias]_vars

\* ---- specification: setting the parameters of a sensor -------------------
NComponentsArgs == {None, Some(0), Some(5)}
RandomStateArgs == {None, Some(1), Some(7)}
ThresholdArgs == {None, Some(-30)}

InitParams == InitFrom({NoFile})

NextParams ==
    \/ \E l \in Labels, m \in ShortArgs : AppendReading(1, l, m)
    \/ \E l \in Labels, n \in NComponentsArgs, r \in RandomStateArgs, t \in ThresholdArgs :
          SetParameters(1, l, n, r, t)
    \/ \E l \in Labels : GetParameters(1, l)

SpecParams == InitParams /\ [][NextParams]_vars

\* ---- specification: the match evaluator ----------------------------------
InitEval == InitFrom({NoFile})

NextEval ==
    \/ \E l \in Labels, m \in ShortArgs : AppendReading(1, l, m)
    \/ \E l \in Labels, t \in ThresholdArgs : SetParameters(1, l, None, None, t)
    \/ \E n \in 0 .. MaxLen, rd \in ReadingsArgs : IsGesture(1, n, rd)

SpecEval == InitEval /\ [][NextEval]_vars

\* ======================= properties ======================================
\* what a caller sees of a store: its keys and, per key, the parameters and
\* the component sets in order
StoreView(s, cls) ==
    [l \in DOMAIN s.d |->
        [models |-> ModelsOf(s.d[l], cls), n_components |-> s.d[l].n_components,
         random_state |-> s.d[l].random_state, threshold |-> s.d[l].threshold]]

\* a valid non-empty store: a dict whose every sensor holds a component set
ValidStore(s, cls) ==
    /\ s.shape = "dict"
    /\ DOMAIN s.d # {}
    /\ \A l \in DOMAIN s.d : ModelsOf(s.d[l], cls) # <<>>

\* a read() by the instance whose write() of a valid store, built by create()
\* and append_reading, has just succeeded
RoundTripStep ==
    ( /\ last.op = "write" /\ last.ok /\ last.g \in built
      /\ ValidStore(gesture_data[last.g], classModels)
      /\ last'.op = "read" /\ last'.g = last.g )
    => /\ last'.ok
       /\ gesture_data'[last.g].shape = "dict"
       /\ StoreView(gesture_data'[last.g], classModels')
              = StoreView(gesture_data[last.g], classModels)

\* C1: round trip -- a successful write (either override) of a valid non-empty
\* store built by create() and append_reading, followed by read() on the same
\* path, returns success and leaves an equivalent store: same keys, same
\* parameters, same component sets in the same order.
RoundTrip == [][RoundTripStep]_vars

\* the second of two append_reading calls in a row on one label of one
\* instance, the first having created the entry
AppendTwiceStep ==
    ( /\ last.op = "append_reading" /\ last.ok /\ last.isNew /\ last.arg # <<>>
      /\ last'.op = "append_reading" /\ last'.ok /\ last'.arg # <<>>
      /\ last'.g = last.g /\ last'.label = last.label )
    => ModelsOf(gesture_data'[last.g].d[last.label], classModels') = last.arg \o last'.arg

\* C2: append correctness -- append_reading(label, A) followed by
\* append_reading(label, B) leaves the entry of label holding exactly A
\* followed by B (K1+K2 component sets, the first K1 unchanged), whatever
\* other labels or instances were appended to before.
AppendCorrect == [][AppendTwiceStep]_vars

\* the sensor entries of all the instances, as <<instance, label>>
Entries(gd) ==
    {e \in Stores \X Labels : gd[e[1]].shape = "dict" /\ e[2] \in DOMAIN gd[e[1]].d}
OwnershipStep ==
    (last'.op = "append_reading" /\ last'.arg # <<>>)
    => /\ \A e \in Entries(gesture_data) :
             e # <<last'.g, last'.label>>
             => ModelsOf(gesture_data'[e[1]].d[e[2]], classModels')
                    = ModelsOf(gesture_data[e[1]].d[e[2]], classModels)
       /\ \A e1, e2 \in Entries(gesture_data') :
             e1 # e2 => gesture_data'[e1[1]].d[e1[2]].own \/ gesture_data'[e2[1]].d[e2[2]].own

\* C3: exclusive ownership -- append_reading(label, components) on one
\* instance leaves the component sets of every other label of that store and
\* of every label of every other instance unchanged, and no two sensor
\* entries share one sequence.
ExclusiveOwnership == [][OwnershipStep]_vars

\* C4: once create() has succeeded, after any append_reading and write calls
\* (override or not, succeeding or failing) the container still holds the
\* version field read() looks up first.
VersionHeaderKept == created => file.exists /\ file.version.kind # "none"

\* the version tag of the container is, or is not, a key of the registry
TagKnown(f) == f.exists /\ f.version.kind = "str" /\ f.version.val \in {"0.0.1", "2"}
TagUnknown(f) == f.exists /\ f.version.kind # "none" /\ ~TagKnown(f)
UnknownVersionStep ==
    (last'.op = "read" /\ TagUnknown(file))
    => /\ ~last'.ok
       /\ last'.codec = "none"
       /\ gesture_data' = gesture_data

\* C5: read() on a container whose version tag is not exactly one of the
\* registry's keys returns failure, invokes no reader (no fallback), and
\* leaves the in-memory store as it was.
UnknownVersionRejected == [][UnknownVersionStep]_vars
\* a read() of a container tagged "3" has failed on a store holding sensors
UnknownVersionWitness ==
    /\ last.op = "read" /\ ~last.ok
    /\ TagUnknown(file) /\ file.version.kind = "str"
    /\ ~IsEmptyDict(gesture_data[last.g])

\* some component-set record of the container lacks a field
HasBadRecord(f) ==
    \E l \in DOMAIN f.groups : \E i \in DOMAIN f.groups[l].models : ~f.groups[l].models[i].ok
AllOrNothingStep ==
    (last'.op = "read" /\ TagKnown(file) /\ HasBadRecord(file))
    => ~last'.ok /\ gesture_data' = gesture_data

\* C6: load is all-or-nothing -- read() of a container with a supported tag
\* and a component-set record lacking a field reports failure and leaves the
\* in-memory store exactly as it was.
LoadAllOrNothing == [][AllOrNothingStep]_vars

SensorKeys(readings) == {readings[i].sensor : i \in 1 .. Len(readings)}
\* some key of readings has a list as long as no timestamps, or is no key of
\* the store
Offending(s, n, readings) ==
    \E i \in 1 .. Len(readings) :
        \/ Len(readings[i].vals) # n
        \/ s.shape = "dict" /\ readings[i].sensor \notin DOMAIN s.d

\* C7: a failing evaluation (a reading list whose length differs from the
\* timestamps', or a sensor key the store lacks) returns (false, {}): no
\* entry of the sensors processed before the offending one.
NoPartialResults ==
    ( /\ last.op = "is_gesture" /\ ~last.raised
      /\ Offending(gesture_data[last.g], last.ts, last.readings) )
    => ~last.status /\ DOMAIN last.result = {}

EmptyStoreStep ==
    (last'.op = "is_gesture" /\ IsEmptyDict(gesture_data[last'.g]))
    => /\ ~last'.raised /\ ~last'.status /\ DOMAIN last'.result = {}
       /\ IsEmptyDict(gesture_data'[last'.g])

\* C8: is_gesture on an empty store returns (false, {}) whatever the
\* timestamps and readings, and leaves the store empty.
EmptyStoreRejected == [][EmptyStoreStep]_vars
\* is_gesture was called on an empty store with readings of some sensor
EmptyStoreWitness ==
    /\ last.op = "is_gesture" /\ IsEmptyDict(gesture_data[last.g])
    /\ last.readings # <<>> /\ ~last.status

InvalidArgs(n, r) == (n.set /\ n.v <= 0) \/ (r.set /\ r.v <= 1)
ValidateFirstStep ==
    (last'.op = "set_parameters" /\ InvalidArgs(last'.n_components, last'.random_state))
    => gesture_data' = gesture_data

\* C9: set_parameters validates before it mutates -- a call with an invalid
\* argument (n_components <= 0 or random_state <= 1) changes no field, also
\* when another argument of the call is valid.
ValidateBeforeMutate == [][ValidateFirstStep]_vars

\* C10: when is_gesture succeeds, the per-sensor map has one entry for every
\* sensor key of readings (no short circuit after a failing sensor) and the
\* overall boolean is the AND of all the statuses.
EagerConjunction ==
    (last.op = "is_gesture" /\ last.kind = "ok")
    => /\ DOMAIN last.result = SensorKeys(last.readings)
       /\ last.status = (\A k \in DOMAIN last.result : last.result[k].status)
\* two sensors were evaluated, the first failed its threshold, the second
\* passed, and the overall decision was false
EagerWitness ==
    /\ last.op = "is_gesture" /\ last.kind = "ok" /\ Len(last.readings) = 2
    /\ ~last.result[last.readings[1].sensor].status
    /\ last.result[last.readings[2].sensor].status
    /\ ~last.status

\* C11: for each evaluated sensor, value is the maximum score over all of the
\* sensor's component sets and status is true exactly when that maximum is
\* strictly greater than the sensor's own threshold; so a threshold raised (by
\* set_parameters) strictly above the maximum makes the status, and the
\* overall decision, false.
BestScoreAgainstThreshold ==
    (last.op = "is_gesture" /\ last.kind = "ok")
    => \A i \in 1 .. Len(last.readings) :
          LET sd     == gesture_data[last.g].d[last.readings[i].sensor]
              models == ModelsOf(sd, classModels)
              vals   == last.readings[i].vals
              m      == last.result[last.readings[i].sensor]
          IN  /\ \E k \in 1 .. Len(models) : Score(models[k], vals) = m.value
              /\ \A k \in 1 .. Len(models) : Score(models[k], vals) <= m.value
              /\ m.status = (m.value > sd.threshold)
              /\ (sd.threshold > m.value => ~m.status /\ ~last.status)
\* a sensor was evaluated after set_parameters raised its threshold above the
\* best score of its component sets
BestScoreWitness ==
    /\ last.op = "is_gesture" /\ last.kind = "ok" /\ Len(last.readings) = 1
    /\ LET sd == gesture_data[last.g].d[last.readings[1].sensor]
           m  == last.result[last.readings[1].sensor]
       IN  /\ sd.threshold # MODEL_THRESHOLD
           /\ sd.threshold > m.value
           /\ ~m.status /\ ~last.status

\* the sub-records model_i of group l of container f, as the set of their i
Records(f, l) == IF l \in DOMAIN f.groups THEN DOMAIN f.groups[l].models ELSE {}
NumberingStep ==
    (last'.op = "write" /\ last'.ok /\ ~last'.override)
    => \A l \in DOMAIN gesture_data[last'.g].d :
          LET n == Cardinality(Records(file, l))
              m == Len(ModelsOf(gesture_data[last'.g].d[l], classModels))
          IN  /\ Records(file', l) = Records(file, l) \cup (n .. (n + m - 1))
              /\ \A i \in Records(file, l) : file'.groups[l].models[i] = file.groups[l].models[i]

\* C12: write(override=false) on a group holding n component-set sub-records
\* numbers the new ones from n, the count of component-set sub-records, so
\* the group stays consecutively numbered and no prior sub-record is
\* overwritten, for any number of appending writes.
AppendIndexIsCount == [][NumberingStep]_vars

OverrideStep ==
    (last'.op = "write" /\ last'.ok)
    => LET d == gesture_data[last'.g].d
       IN  IF last'.override
           THEN /\ DOMAIN file'.groups = DOMAIN d
                /\ \A l \in DOMAIN d :
                      LET models == ModelsOf(d[l], classModels)
                      IN  /\ DOMAIN file'.groups[l].models = 0 .. (Len(models) - 1)
                          /\ \A i \in 0 .. (Len(models) - 1) :
                                file'.groups[l].models[i] = [comp |-> models[i + 1], ok |-> TRUE]
           ELSE /\ DOMAIN file.groups \subseteq DOMAIN file'.groups
                /\ \A l \in DOMAIN file.groups :
                      /\ Records(file, l) \subseteq Records(file', l)
                      /\ \A i \in Records(file, l) :
                            file'.groups[l].models[i] = file.groups[l].models[i]

\* C13: a successful write(override=true) leaves a container whose sensor
\* groups are exactly the labels of the in-memory store, each holding exactly
\* the store's component sets and nothing the file held before; a successful
\* write(override=false) keeps every sensor group and component set the file
\* held before.
OverrideRecreates == [][OverrideStep]_vars
\* an overriding write succeeded and dropped group "a", which every container
\* found at the path at start holds
OverrideWitness ==
    /\ last.op = "write" /\ last.ok /\ last.override
    /\ DOMAIN file.groups = {"b"}
    /\ DOMAIN gesture_data[last.g].d = {"b"}

EmptyWriteStep ==
    (last'.op = "write" /\ IsEmptyDict(gesture_data[last'.g]))
    => /\ ~last'.ok
       /\ file' = file
       /\ gesture_data' = gesture_data
       /\ classModels' = classModels

\* C14: write on an empty in-memory store returns failure and changes neither
\* the container file (an existing file's content included, also when
\* override is true) nor the in-memory store.
EmptyWriteNoOp == [][EmptyWriteStep]_vars
\* an overriding write on an empty store failed and the file still holds its
\* sensor groups
EmptyWriteWitness ==
    /\ last.op = "write" /\ ~last.ok /\ last.override
    /\ IsEmptyDict(gesture_data[last.g])
    /\ file.exists /\ DOMAIN file.groups # {}

\* C15: after a successful create(), whatever calls preceded it, the
\* in-memory store has no sensor entries and the file holds the version
\* header alone.
CreateResetsStore ==
    last.op = "create"
    => /\ IsEmptyDict(gesture_data[last.g])
       /\ file = CreatedContainer

\* C16: after a successful read() the store is a mapping whose keys are
\* exactly the sensor labels stored in the container, and every value is a
\* sensor entry carrying that sensor's parameters and component sets (nothing
\* for the version field, nothing surviving from before the read).
ReadReplacesStore ==
    (last.op = "read" /\ last.ok)
    => LET s == gesture_data[last.g]
       IN  /\ s.shape = "dict"
           /\ DOMAIN s.d = DOMAIN file.groups
           /\ \A l \in DOMAIN s.d :
                 LET grp == file.groups[l]
                     ord == InIndexOrder(DOMAIN grp.models)
                     p   == IF grp.params.present THEN grp.params ELSE file.globals
                 IN  /\ s.d[l].own
                     /\ s.d[l].models = [k \in 1 .. Len(ord) |-> grp.models[ord[k]].comp]
                     /\ s.d[l].n_components = p.n_components
                     /\ s.d[l].random_state = p.random_state
                     /\ s.d[l].threshold = p.threshold

\* C17: no public operation lets an exception escape to the caller: failure
\* is reported through the returned value, also for set_parameters with an
\* invalid n_components or random_state and for set_parameters and
\* get_parameters on a label absent from the store.
NoEscapingException == ~last.raised

\* C18: every sensor entry of the in-memory store holds a non-empty sequence
\* of component sets in every reachable state; append_reading(label, [])
\* never creates or leaves an entry with zero component sets.
EntriesNonEmpty ==
    \A e \in Entries(gesture_data) :
        ModelsOf(gesture_data[e[1]].d[e[2]], classModels) # <<>>

AppendingWriteStep ==
    (last'.op = "write" /\ last'.ok /\ ~last'.override)
    => /\ gesture_data' = gesture_data
       /\ classModels' = classModels
       /\ \A l \in DOMAIN gesture_data[last'.g].d :
             LET models == ModelsOf(gesture_data[last'.g].d[l], classModels)
                 added  == InIndexOrder(Records(file', l) \ Records(file, l))
             IN  /\ Cardinality(Records(file', l))
                        = Cardinality(Records(file, l)) + Len(models)
                 /\ Len(added) = Len(models)
                 /\ \A k \in 1 .. Len(added) :
                       file'.groups[l].models[added[k]] = [comp |-> models[k], ok |-> TRUE]

\* C19: each successful write(override=false) adds to every sensor group one
\* new sub-record per component set the store holds for that label, sets an
\* earlier write committed or read() loaded from the same file included, and
\* leaves the in-memory store as it was; so k appending writes of an unchanged
\* store of m sets leave k*m sub-records.
AppendingWriteDuplicates == [][AppendingWriteStep]_vars
\* the single component set read() loaded from the file was written back by
\* an appending write: the group now holds it twice
AppendingWriteWitness ==
    /\ last.op = "write" /\ last.ok /\ ~last.override
    /\ Subscriptable(gesture_data[last.g], "a")
    /\ gesture_data[last.g].d["a"].own
    /\ Len(gesture_data[last.g].d["a"].models) = 1
    /\ Cardinality(Records(file, "a")) = 2
    /\ \A i \in Records(file, "a") :
          file.groups["a"].models[i].comp = gesture_data[last.g].d["a"].models[1]

\* C20: is_gesture on a non-empty store with a readings map that has no
\* sensor keys returns (true, {}), the AND over zero sensors; the sensors of
\* the store that readings does not name have no entry in the result and no
\* part in the decision.
VacuousMatch ==
    (last.op = "is_gesture" /\ ~IsEmptyDict(gesture_data[last.g]))
    => /\ last.readings = <<>>
          => /\ last.kind = "ok" /\ ~last.raised
             /\ last.status
             /\ DOMAIN last.result = {}
       /\ last.kind = "ok"
          => /\ DOMAIN last.result \subseteq SensorKeys(last.readings)
             /\ last.status = (\A l \in SensorKeys(last.readings) : last.result[l].status)
\* is_gesture was called with no readings on a store holding both sensors and
\* answered true
VacuousMatchWitness ==
    /\ last.op = "is_gesture" /\ last.readings = <<>>
    /\ gesture_data[last.g].shape = "dict" /\ DOMAIN gesture_data[last.g].d = Labels
    /\ last.status /\ DOMAIN last.result = {}

====
